---- MODULE Spec2Model ----
(***************************************************************************)
(* Simulated order execution and settlement                                *)
(* (tensortrade/oms/services/execution/simulated.py).                      *)
(*                                                                         *)
(* Amounts (Quantity sizes, wallet balances, commission rate) are exact    *)
(* rationals [n, d] kept in lowest terms with d > 0.  Prices are positive  *)
(* integers (ticks); the ratio price / max(current_price, price) is the    *)
(* exact rational.                                                         *)
(***************************************************************************)
EXTENDS Integers, Sequences, FiniteSets

\* ---------------------------------------------------------------- bounds
MaxPrice == 2
MaxRemaining == 1
MaxPrecision == 1
MaxStep == 1
InitialBalance == 2

\* ------------------------------------------------- rational arithmetic
RECURSIVE GCD(_, _)
GCD(a, b) == IF b = 0 THEN a ELSE GCD(b, a % b)

Abs(x) == IF x < 0 THEN -x ELSE x

Rat(n, d) ==
    LET g == GCD(Abs(n), Abs(d))
        s == IF d < 0 THEN -1 ELSE 1
    IN [n |-> (s * n) \div g, d |-> (s * d) \div g]

RInt(i) == [n |-> i, d |-> 1]

RMul(a, b) == Rat(a.n * b.n, a.d * b.d)

RAdd(a, b) == Rat(a.n * b.d + b.n * a.d, a.d * b.d)

RSub(a, b) == Rat(a.n * b.d - b.n * a.d, a.d * b.d)

RLt(a, b) == a.n * b.d < b.n * a.d

RLe(a, b) == a.n * b.d <= b.n * a.d

Max(a, b) == IF a >= b THEN a ELSE b

RECURSIVE Pow10(_)
Pow10(k) == IF k = 0 THEN 1 ELSE 10 * Pow10(k - 1)

\* ------------------------------------------------------ input domains
Prices == 1..MaxPrice

Sides == {"BUY", "SELL", "NONE"}

TradeTypes == {"LIMIT", "MARKET"}

\* opening balance of a wallet
Balances == {RInt(InitialBalance)}

\* ExchangeOptions.commission: 0 <= rate < 1
Rates == {Rat(0, 1), Rat(1, 10), Rat(1, 2)}

\* order.remaining.contain(exchange_pair, t_signal): the remaining amount
\* converted into the pair's terms; never negative, never above remaining.
Contain(remaining) == 0..remaining

VARIABLES order, wallets, options, precision, clock, repeated, last

vars == <<order, wallets, options, precision, clock, repeated, last>>

\* ------------------------------------------------------ collaborators
\* Order.cancel(reason)
Cancel(o, reason) == [o EXCEPT !.status = "cancelled", !.cancel_reason = reason]

NoArgs == [source |-> "none", target |-> "none",
           quantity |-> RInt(0), commission |-> RInt(0)]

NoTrade == [side |-> "none", trade_type |-> "none", step |-> 0,
            quantity |-> RInt(0), commission |-> RInt(0)]

\* Wallet.transfer: debits quantity + commission from source, credits
\* quantity to target; InsufficientBalance leaves both wallets unchanged.
Transfer(w, source, target, quantity, commission) ==
    LET debit == RAdd(quantity, commission)
    IN IF RLt(w[source], debit)
       THEN [ok |-> FALSE, wallets |-> w,
             quantity |-> quantity, commission |-> commission]
       ELSE [ok |-> TRUE,
             wallets |-> [w EXCEPT ![source] = RSub(w[source], debit),
                                   ![target] = RAdd(w[target], quantity)],
             quantity |-> quantity, commission |-> commission]

\* ------------------------------------------------------------ engine
\* the price field the branch on t_signal reads
ChosenPrice_backtest_only(o, t_signal) == o.price

ChosenPrice(o, t_signal) == IF t_signal THEN o.price ELSE o.price_online

BuyIneligible(o, current_price, t_signal) ==
    o.type = "LIMIT" /\ ChosenPrice(o, t_signal) < current_price

SellIneligible(o, current_price, t_signal) ==
    o.type = "LIMIT" /\ ChosenPrice(o, t_signal) > current_price

\* `return None` of an ineligible limit order: the order is left as it is
Rejected_cancel(o) == Cancel(o, "INELIGIBLE")

Rejected_reopen(o) == [o EXCEPT !.status = "open"]

Rejected(o) == o

\* scale = price / max(current_price, price)
Scale_min(o, current_price, t_signal) ==
    LET p == ChosenPrice(o, t_signal)
    IN Rat(p, IF current_price <= p THEN current_price ELSE p)

Scale(o, current_price, t_signal) ==
    LET p == ChosenPrice(o, t_signal)
    IN Rat(p, Max(current_price, p))

BuyFilled(o, contained, current_price, t_signal) ==
    IF o.type = "MARKET"
    THEN RMul(Scale(o, current_price, t_signal), RInt(contained))
    ELSE RInt(contained)

SellFilled(o, contained) == RInt(contained)

Commission(rate, filled) == RMul(rate, filled)

NetQuantity_gross(filled, commission) == filled

NetQuantity(filled, commission) == RSub(filled, commission)

\* commission.size < Decimal(10) ** -quantity.instrument.precision
GuardFires_negative(commission, prec) == commission.n < 0

GuardFires_exponent(commission, prec) == RLt(commission, Rat(1, Pow10(prec + 1)))

GuardFires(commission, prec) == RLt(commission, Rat(1, Pow10(prec)))

CancelReason_nodot == "COMMISSION IS LESS THAN PRECISION"

CancelReason == "COMMISSION IS LESS THAN PRECISION."

BuyEndpoints == [source |-> "base", target |-> "quote"]

SellEndpoints_swapped == [source |-> "base", target |-> "quote"]

SellEndpoints == [source |-> "quote", target |-> "base"]

\* Wallet.transfer(...) followed by Trade(...); no exception handler
Settle_swallow(o, w, ep, quantity, commission, filled, side, step) ==
    LET tr == Transfer(w, ep.source, ep.target, quantity, commission)
        args == [source |-> ep.source, target |-> ep.target,
                 quantity |-> quantity, commission |-> commission]
    IN IF tr.ok
       THEN [ret |-> "Trade", path |-> "settled", order |-> o,
             wallets |-> tr.wallets, invoked |-> TRUE, args |-> args,
             filled |-> filled,
             trade |-> [side |-> side, trade_type |-> o.type, step |-> step,
                        quantity |-> tr.quantity, commission |-> tr.commission]]
       ELSE [ret |-> "None", path |-> "raised",
             order |-> Cancel(o, "INSUFFICIENT BALANCE"),
             wallets |-> tr.wallets, invoked |-> TRUE, args |-> args,
             filled |-> filled, trade |-> NoTrade]

Settle(o, w, ep, quantity, commission, filled, side, step) ==
    LET tr == Transfer(w, ep.source, ep.target, quantity, commission)
        args == [source |-> ep.source, target |-> ep.target,
                 quantity |-> quantity, commission |-> commission]
    IN IF tr.ok
       THEN [ret |-> "Trade", path |-> "settled", order |-> o,
             wallets |-> tr.wallets, invoked |-> TRUE, args |-> args,
             filled |-> filled,
             trade |-> [side |-> side, trade_type |-> o.type, step |-> step,
                        quantity |-> tr.quantity, commission |-> tr.commission]]
       ELSE [ret |-> "InsufficientBalance", path |-> "raised", order |-> o,
             wallets |-> tr.wallets, invoked |-> TRUE, args |-> args,
             filled |-> filled, trade |-> NoTrade]

NoExecution(o, w, path, filled) ==
    [ret |-> "None", path |-> path, order |-> o, wallets |-> w,
     invoked |-> FALSE, args |-> NoArgs, filled |-> filled, trade |-> NoTrade]

execute_buy_order(o, w, current_price, rate, prec, step, t_signal, contained) ==
    IF BuyIneligible(o, current_price, t_signal)
    THEN NoExecution(Rejected(o), w, "ineligible", RInt(0))
    ELSE LET filled == BuyFilled(o, contained, current_price, t_signal)
             commission == Commission(rate, filled)
             quantity == NetQuantity(filled, commission)
         IN IF GuardFires(commission, prec)
            THEN NoExecution(Cancel(o, CancelReason), w, "guard", filled)
            ELSE Settle(o, w, BuyEndpoints, quantity, commission, filled,
                        "BUY", step)

execute_sell_order(o, w, current_price, rate, prec, step, t_signal, contained) ==
    IF SellIneligible(o, current_price, t_signal)
    THEN NoExecution(Rejected(o), w, "ineligible", RInt(0))
    ELSE LET filled == SellFilled(o, contained)
             commission == Commission(rate, filled)
             quantity == NetQuantity(filled, commission)
         IN IF GuardFires(commission, prec)
            THEN NoExecution(Cancel(o, CancelReason), w, "guard", filled)
            ELSE Settle(o, w, SellEndpoints, quantity, commission, filled,
                        "SELL", step)

execute_order(o, w, current_price, rate, prec, step, t_signal, contained) ==
    IF o.side = "BUY"
    THEN execute_buy_order(o, w, current_price, rate, prec, step, t_signal, contained)
    ELSE IF o.side = "SELL"
    THEN execute_sell_order(o, w, current_price, rate, prec, step, t_signal, contained)
    ELSE NoExecution(o, w, "neither", RInt(0))

\* ------------------------------------------------------ state machine
NoCall ==
    [called |-> FALSE, t_signal |-> TRUE, current_price |-> 1, contained |-> 0,
     pre_order |-> order, pre_wallets |-> wallets,
     res |-> NoExecution(order, wallets, "none", RInt(0))]

Init ==
    /\ order \in [side : Sides, type : TradeTypes, price : Prices,
                  price_online : Prices, remaining : {MaxRemaining},
                  status : {"open"}, cancel_reason : {""}]
    /\ \E b \in Balances : wallets = [x \in {"base", "quote"} |-> b]
    /\ options \in Rates
    /\ precision \in 0..MaxPrecision
    /\ clock = 0
    /\ repeated = FALSE
    /\ last = NoCall

ExecuteOrder ==
    /\ \E t_signal \in BOOLEAN, current_price \in Prices,
          contained \in Contain(order.remaining) :
         last' = [called |-> TRUE, t_signal |-> t_signal,
                  current_price |-> current_price,
                  contained |-> contained,
                  pre_order |-> order, pre_wallets |-> wallets,
                  res |-> execute_order(order, wallets, current_price,
                                        options, precision, clock,
                                        t_signal, contained)]
    /\ order' = last'.res.order
    /\ wallets' = last'.res.wallets
    /\ repeated' = last.called
    /\ UNCHANGED <<options, precision, clock>>

\* Clock.increment by the surrounding loop
Tick ==
    /\ clock < MaxStep
    /\ clock' = clock + 1
    /\ UNCHANGED <<order, wallets, options, precision, repeated, last>>

Next == ExecuteOrder \/ Tick

Spec == Init /\ [][Next]_vars

\* ------------------------------------------------- claim vocabulary
Pre == last.pre_order

Res == last.res

\* the price field the call is specified to read
SpecPrice == IF last.t_signal THEN Pre.price ELSE Pre.price_online

SpecIneligible ==
    /\ Pre.type = "LIMIT"
    /\ \/ Pre.side = "BUY" /\ SpecPrice < last.current_price
       \/ Pre.side = "SELL" /\ SpecPrice > last.current_price

\* a call on a buy or sell order that passed the price test
EligibleCall == last.called /\ Pre.side \in {"BUY", "SELL"} /\ ~SpecIneligible

\* min(1, chosen_price / current_price)
SpecScale ==
    IF last.current_price <= SpecPrice THEN RInt(1)
    ELSE Rat(SpecPrice, last.current_price)

SpecFilled ==
    IF Pre.side = "BUY" /\ Pre.type = "MARKET"
    THEN RMul(SpecScale, RInt(last.contained))
    ELSE RInt(last.contained)

SpecCommission == RMul(options, SpecFilled)

Threshold == Rat(1, Pow10(precision))

Unchanged == wallets = last.pre_wallets

\* ------------------------------------------------------------ claims

C2_IneligibleRejected ==
    (last.called /\ Pre.side \in {"BUY", "SELL"} /\ SpecIneligible) =>
        /\ Res.ret = "None"
        /\ ~Res.invoked
        /\ Unchanged
        /\ order = Pre

C2_Witness ==
    /\ repeated /\ last.called
    /\ Pre.side \in {"BUY", "SELL"} /\ SpecIneligible
    /\ Res.path = "ineligible"
    /\ order.status = "open"

\* the guard's boundary: a commission equal to 10^-precision is settled
C3_Boundary ==
    /\ EligibleCall
    /\ SpecCommission = Threshold
    /\ Res.ret = "Trade"

\* C3: for an eligible buy or sell order, a commission below 10^-precision
\* cancels the order with no transfer, no wallet change and no trade; the
\* transfer is invoked only when commission >= 10^-precision.
C3_PrecisionGuard ==
    EligibleCall =>
        /\ RLt(SpecCommission, Threshold) =>
              /\ order.status = "cancelled"
              /\ ~Res.invoked
              /\ Unchanged
              /\ Res.ret = "None"
        /\ Res.invoked => RLe(Threshold, SpecCommission)

C3_Witness ==
    /\ EligibleCall
    /\ RLt(SpecCommission, Threshold)
    /\ SpecCommission.n > 0
    /\ Pre.status = "open" /\ order.status = "cancelled"

\* C4: a transfer caused by a buy order goes from the base wallet to the
\* quote wallet, one caused by a sell order from the quote wallet to the
\* base wallet, and an order that is neither buy nor sell causes no
\* transfer, no cancellation and no trade.
C4_SideRouting ==
    last.called =>
        /\ (Pre.side = "BUY" /\ Res.invoked) =>
              /\ Res.args.source = "base" /\ Res.args.target = "quote"
              /\ RLe(wallets["base"], last.pre_wallets["base"])
              /\ RLe(last.pre_wallets["quote"], wallets["quote"])
        /\ (Pre.side = "SELL" /\ Res.invoked) =>
              /\ Res.args.source = "quote" /\ Res.args.target = "base"
              /\ RLe(wallets["quote"], last.pre_wallets["quote"])
              /\ RLe(last.pre_wallets["base"], wallets["base"])
        /\ Pre.side \notin {"BUY", "SELL"} =>
              /\ ~Res.invoked
              /\ Res.ret = "None"
              /\ order = Pre
              /\ Unchanged

C4_Witness ==
    /\ last.called /\ Pre.side = "SELL" /\ Res.ret = "Trade"
    /\ RLt(wallets["quote"], last.pre_wallets["quote"])
    /\ RLt(last.pre_wallets["base"], wallets["base"])

\* C5: for a buy market order with positive prices the filled amount is the
\* converted remaining amount times min(1, chosen_price / current_price):
\* the factor never exceeds 1, is 1 when current_price <= chosen_price, and
\* filled never exceeds the converted amount; sell and limit orders are not
\* scaled.
C5_MarketScaling ==
    (EligibleCall /\ Res.path # "ineligible") =>
        /\ Res.filled = SpecFilled
        /\ RLe(SpecScale, RInt(1))
        /\ RLe(Res.filled, RInt(last.contained))
        /\ (Pre.side = "BUY" /\ Pre.type = "MARKET"
              /\ last.current_price <= SpecPrice) =>
              Res.filled = RInt(last.contained)
        /\ (Pre.side = "SELL" \/ Pre.type = "LIMIT") =>
              Res.filled = RInt(last.contained)

C5_Witness ==
    /\ EligibleCall
    /\ Pre.side = "BUY" /\ Pre.type = "MARKET"
    /\ SpecPrice < last.current_price
    /\ last.contained > 0
    /\ RLt(Res.filled, RInt(last.contained))

\* C6: the engine changes an order's lifecycle state only from open to
\* filled / partially filled (on a successful execution) or from open to
\* cancelled (when the precision guard fires); a cancelled order is never
\* re-opened and the remaining quantity never increases.
C6_OrderStateMachine ==
    [][ /\ order'.status # order.status =>
              /\ order.status = "open"
              /\ \/ order'.status \in {"filled", "partially_filled"}
                       /\ last'.res.ret = "Trade"
                 \/ order'.status = "cancelled" /\ last'.res.path = "guard"
        /\ order.status = "cancelled" => order'.status = "cancelled"
        /\ order'.remaining <= order.remaining ]_vars

C6_Witness ==
    /\ last.called
    /\ Pre.status = "cancelled" /\ order.status = "cancelled"
    /\ Res.path = "ineligible"

\* C7: when the transfer fails with InsufficientBalance the failure reaches
\* the caller, no Trade is produced, both wallets keep their pre-call
\* balances and the order is not cancelled.
C7_InsufficientBalance ==
    ( /\ last.called /\ Res.invoked
      /\ RLt(last.pre_wallets[Res.args.source],
             RAdd(Res.args.quantity, Res.args.commission)) ) =>
        /\ Res.ret = "InsufficientBalance"
        /\ Res.trade = NoTrade
        /\ Unchanged
        /\ order = Pre

C7_Witness ==
    /\ last.called /\ Res.ret = "InsufficientBalance"
    /\ Pre.status = "open" /\ order.status = "open"

\* C8 (as stated): the reason given to cancel by the precision guard is
\* exactly "COMMISSION IS LESS THAN PRECISION".
C8_ReasonAsStated ==
    (last.called /\ Res.path = "guard") =>
        order.cancel_reason = "COMMISSION IS LESS THAN PRECISION"

\* C8 (amended): the reason given to cancel by the precision guard, for buy
\* and sell alike, is exactly "COMMISSION IS LESS THAN PRECISION." with the
\* closing full stop.
C8_ReasonWithFullStop ==
    (EligibleCall /\ RLt(SpecCommission, Threshold)) =>
        /\ order.status = "cancelled"
        /\ order.cancel_reason = "COMMISSION IS LESS THAN PRECISION."

C8_Witness ==
    /\ EligibleCall /\ Pre.side = "SELL" /\ Res.path = "guard"
    /\ Pre.cancel_reason = "" /\ order.cancel_reason # ""

\* the observable outcome of a call
Outcome(res) ==
    [ret |-> res.ret, path |-> res.path, wallets |-> res.wallets,
     invoked |-> res.invoked, args |-> res.args, filled |-> res.filled,
     status |-> res.order.status, reason |-> res.order.cancel_reason,
     quantity |-> res.trade.quantity, commission |-> res.trade.commission]

\* the last call's order with the price field the mode does not read replaced
WithOtherPrice(alt) ==
    IF last.t_signal THEN [Pre EXCEPT !.price_online = alt]
    ELSE [Pre EXCEPT !.price = alt]

\* C9: a limit buy is eligible iff its chosen price >= current_price, a
\* limit sell iff its chosen price <= current_price (equality is eligible);
\* the chosen field is price when t_signal is true and price_online when it
\* is false; the other price field does not influence the outcome; a market
\* order is never rejected on price grounds.
C9_Eligibility ==
    (last.called /\ Pre.side \in {"BUY", "SELL"}) =>
        /\ (Pre.side = "BUY" /\ Pre.type = "LIMIT") =>
              (Res.path # "ineligible" <=> SpecPrice >= last.current_price)
        /\ (Pre.side = "SELL" /\ Pre.type = "LIMIT") =>
              (Res.path # "ineligible" <=> SpecPrice <= last.current_price)
        /\ Pre.type = "MARKET" => Res.path # "ineligible"
        /\ \A alt \in Prices :
              Outcome(execute_order(WithOtherPrice(alt), last.pre_wallets,
                                    last.current_price, options, precision,
                                    0, last.t_signal, last.contained))
                = Outcome(Res)

C9_Witness ==
    /\ last.called /\ ~last.t_signal
    /\ Pre.side = "BUY" /\ Pre.type = "LIMIT"
    /\ Pre.price_online = last.current_price
    /\ Pre.price < last.current_price
    /\ Res.ret = "Trade"

====
